---- MODULE Spec2Model ----
(***************************************************************************)
(* A model of collidoscope's collision rule engine                         *)
(* (src/Lib/collidoscope/__init__.py): the outline cache, the positioner,  *)
(* the overlap detector and has_collisions.                                *)
(*                                                                         *)
(* Geometry.  The curve library (beziers), the outline provider            *)
(* (glyphtools) and the shaper (uharfbuzz) are collaborators outside the   *)
(* repository.  They are modelled on a small font whose outlines are       *)
(* axis-aligned rectangles on the integer grid: a path is a rectangle, its *)
(* segments are its four edges, two edges intersect where a horizontal and *)
(* a vertical one meet, and the flattened intersection of two paths is the *)
(* rectangle they share.                                                   *)
(*                                                                         *)
(* Sequences are 1-based here; the Python indices are 0-based.             *)
(***************************************************************************)
EXTENDS Integers, Sequences, FiniteSets, TLC

\* The longest glyph run that is shaped.
MaxRun == 3

\* The most calls a caller makes on get_cached_glyph and get_positioned_glyph.
MaxCalls == 3

---------------------------------------------------------------------------
(* The font and the shaper (collaborators)                                 *)

GlyphNames == {"a", "i", "beh", "m", "fi"}

Rect(x0, x1, y0, y1) == [x0 |-> x0, x1 |-> x1, y0 |-> y0, y1 |-> y1]

Point(x, y) == [x |-> x, y |-> y]

\* get_beziers(font, name): the outline of a glyph, a list of closed paths.
\* "fi" carries a zero-length path, as real outlines sometimes do.
get_beziers(name) ==
  CASE name = "a"   -> << Rect(0, 4, 0, 3) >>
    [] name = "i"   -> << Rect(0, 1, 0, 2), Rect(-1, 4, 4, 5) >>
    [] name = "beh" -> << Rect(-1, 5, -1, 1), Rect(1, 6, -3, -2) >>
    [] name = "m"   -> << Rect(0, 3, 4, 6) >>
    [] name = "fi"  -> << Rect(0, 1, 0, 3), Rect(2, 2, 2, 2), Rect(0, 6, 4, 5) >>

\* categorize_glyph(font, name)[0]
categorize_glyph(name) ==
  CASE name = "m"  -> "mark"
    [] name = "fi" -> "ligature"
    [] OTHER       -> "base"

\* The GPOS cursive attachment anchors of the font: entry and exit of "beh".
FontAnchors == [n \in {"beh"} |-> << Point(0, 0), Point(4, 0) >>]

\* The shaper's glyph position of a glyph: (x_offset, y_offset, x_advance).
\* A mark has no advance and is moved back over the glyph before it.
ShapedPosition(name) ==
  CASE name = "a"   -> << 0, 0, 5 >>
    [] name = "i"   -> << 0, 0, 2 >>
    [] name = "beh" -> << 0, 0, 4 >>
    [] name = "m"   -> << -2, 0, 0 >>
    [] name = "fi"  -> << 0, 0, 5 >>

\* The number of input characters a glyph stands for.
CharsOf(name) == IF name = "fi" THEN 2 ELSE 1

\* The shaper's cluster of a glyph: the index of its first character; a mark
\* is merged into the cluster of the glyph before it.
ShapedCluster(name, run, charIx) ==
  IF categorize_glyph(name) = "mark" /\ Len(run) > 0
  THEN run[Len(run)].cluster
  ELSE charIx

---------------------------------------------------------------------------
(* Curve geometry (collaborator), on rectangles                            *)

Min(a, b) == IF a < b THEN a ELSE b
Max(a, b) == IF a > b THEN a ELSE b

\* BezierPath.length
PathLength(p) == 2 * ((p.x1 - p.x0) + (p.y1 - p.y0))

\* BezierPath.area
PathArea(p) == (p.x1 - p.x0) * (p.y1 - p.y0)

\* BezierPath.bounds()
PathBounds(p) == Rect(p.x0, p.x1, p.y0, p.y1)

\* BoundingBox.overlaps
BoundsOverlap(a, b) ==
  ~ (b.x0 > a.x1 \/ b.x1 < a.x0 \/ b.y0 > a.y1 \/ b.y1 < a.y0)

\* BoundingBox.extend over a list of boxes
RECURSIVE ExtendAll(_, _)
ExtendAll(box, boxes) ==
  IF boxes = << >> THEN box
  ELSE LET b == Head(boxes)
       IN ExtendAll(Rect(Min(box.x0, b.x0), Max(box.x1, b.x1),
                         Min(box.y0, b.y0), Max(box.y1, b.y1)), Tail(boxes))

\* BoundingBox.translated / BezierPath.translate
Translated(r, pos) ==
  [r EXCEPT !.x0 = @ + pos.x, !.x1 = @ + pos.x, !.y0 = @ + pos.y, !.y1 = @ + pos.y]

\* BezierPath.pointIsInside
PointIsInside(p, pt) ==
  p.x0 < pt.x /\ pt.x < p.x1 /\ p.y0 < pt.y /\ pt.y < p.y1

\* BezierPath.asSegments: the four edges, counter-clockwise from bottom left.
Seg(sx, sy, ex, ey) == [sx |-> sx, sy |-> sy, ex |-> ex, ey |-> ey]

AsSegments(p) ==
  << Seg(p.x0, p.y0, p.x1, p.y0), Seg(p.x1, p.y0, p.x1, p.y1),
     Seg(p.x1, p.y1, p.x0, p.y1), Seg(p.x0, p.y1, p.x0, p.y0) >>

SegBounds(s) ==
  Rect(Min(s.sx, s.ex), Max(s.sx, s.ex), Min(s.sy, s.ey), Max(s.sy, s.ey))

\* Segment.intersections: parallel lines never intersect; a horizontal and a
\* vertical line intersect in the point they share.
SegIntersections(s1, s2) ==
  LET v1 == s1.sx = s1.ex
      v2 == s2.sx = s2.ex
      h1 == s1.sy = s1.ey
      h2 == s2.sy = s2.ey
      b1 == SegBounds(s1)
      b2 == SegBounds(s2)
  IN IF (v1 /\ v2) \/ (h1 /\ h2) THEN << >>
     ELSE IF BoundsOverlap(b1, b2)
          THEN << Point(IF v1 THEN s1.sx ELSE s2.sx, IF h1 THEN s1.sy ELSE s2.sy) >>
          ELSE << >>

\* The index pairs <<i, j>>, i in 1..n, j in 1..m, in row order.
PairSeq(n, m) ==
  [k \in 1..(n * m) |-> << ((k - 1) \div m) + 1, ((k - 1) % m) + 1 >>]

\* bbox_intersections(seta, setb): the pairs whose bounding boxes overlap.
BBoxIntersections(boundsa, boundsb) ==
  SelectSeq(PairSeq(Len(boundsa), Len(boundsb)),
            LAMBDA pr : BoundsOverlap(boundsa[pr[1]], boundsb[pr[2]]))

\* path1.intersection(path2, flat=True): the areas of the shared regions.
IntersectionAreas(p1, p2) ==
  LET w == Min(p1.x1, p2.x1) - Max(p1.x0, p2.x0)
      h == Min(p1.y1, p2.y1) - Max(p1.y0, p2.y0)
  IN IF w > 0 /\ h > 0 THEN << w * h >> ELSE << >>

---------------------------------------------------------------------------
(* The detector's state                                                    *)

VARIABLES
  rules,       \* self.rules: the rule dictionary, a function on its keys
  direction,   \* self.direction
  glyphcache,  \* self.glyphcache: glyph name -> cached glyph
  calls,       \* how often get_beziers was called, per glyph name
  glyphs,      \* the glyph list get_glyphs has built so far
  cursor,      \* get_glyphs' cursor
  charIx,      \* the shaper's position in the input text
  pc,          \* "shaping" until has_collisions has run, then "checked"
  result,      \* what has_collisions returned
  tested,      \* the find_overlaps calls of has_collisions: <<rule, i, j>>
  log          \* the caller's get_cached_glyph and get_positioned_glyph calls

vars == << rules, direction, glyphcache, calls, glyphs, cursor, charIx, pc,
           result, tested, log >>

_KNOWN_RULES == {"faraway", "marks", "adjacent_clusters", "cursive", "area"}

RuleKeys == _KNOWN_RULES \cup {"bases"}

\* The rules that select glyph pairs by a boolean.
BooleanRules == {"faraway", "marks", "adjacent_clusters", "cursive"}

\* The thresholds of the area rule, in percent (0.05 is 5, 0.5 is 50).
AreaThresholds == {5, 50}

\* The rule dictionaries a detector is created with: at most one boolean
\* rule, true or false, with or without bases and with or without area.
RuleDicts ==
  LET none == { << >> }
      selecting == none \cup { k :> v : k \in BooleanRules, v \in BOOLEAN }
      bases == none \cup { "bases" :> v : v \in BOOLEAN }
      area == none \cup { "area" :> t : t \in AreaThresholds }
  IN { s @@ b @@ a : s \in selecting, b \in bases, a \in area }

\* self.rules.get(k, default)
RuleGet(r, k, default) == IF k \in DOMAIN r THEN r[k] ELSE default

\* "k" in self.rules and self.rules["k"]
RuleOn(r, k) == k \in DOMAIN r /\ r[k]

\* __init__: the anchors are read only when the cursive rule is on.
Anchors(r) ==
  IF RuleOn(r, "cursive") THEN FontAnchors ELSE [n \in {} |-> << >>]

---------------------------------------------------------------------------
(* Outline cache and positioner                                            *)

\* scale_path with scale_factor 1.0, the default
scale_path(p) == p

\* get_cached_glyph on a miss: the entry that is built and stored.
BuildGlyph(r, name) ==
  LET raw == SelectSeq(get_beziers(name), LAMBDA p : PathLength(p) > 0)
      anchors == Anchors(r)
      paths == [k \in 1..Len(raw) |->
                 [x0 |-> scale_path(raw[k]).x0, x1 |-> scale_path(raw[k]).x1,
                  y0 |-> scale_path(raw[k]).y0, y1 |-> scale_path(raw[k]).y1,
                  hasAnchor |-> /\ name \in DOMAIN anchors
                                /\ \E a \in 1..Len(anchors[name]) :
                                     PointIsInside(raw[k], anchors[name][a]),
                  glyphname |-> name]]
      pathbounds == [k \in 1..Len(paths) |-> PathBounds(paths[k])]
      glyphbounds == IF pathbounds # << >>
                     THEN ExtendAll(Head(pathbounds), Tail(pathbounds))
                     ELSE Rect(0, 0, 0, 0)
  IN [name |-> name, paths |-> paths, pathbounds |-> pathbounds,
      glyphbounds |-> glyphbounds, category |-> categorize_glyph(name)]

\* get_cached_glyph: the cache after the call.
CacheAfter(cache, r, name) ==
  IF name \in DOMAIN cache THEN cache ELSE (name :> BuildGlyph(r, name)) @@ cache

get_cached_glyph(cache, r, name) == CacheAfter(cache, r, name)[name]

\* get_positioned_glyph: a translated copy of the cached glyph.
get_positioned_glyph(cache, r, name, pos) ==
  LET g == get_cached_glyph(cache, r, name)
  IN [name |-> g.name,
      paths |-> [k \in 1..Len(g.paths) |->
                  [x0 |-> g.paths[k].x0 + pos.x, x1 |-> g.paths[k].x1 + pos.x,
                   y0 |-> g.paths[k].y0 + pos.y, y1 |-> g.paths[k].y1 + pos.y,
                   hasAnchor |-> g.paths[k].hasAnchor,
                   glyphname |-> g.paths[k].glyphname]],
      pathbounds |-> [k \in 1..Len(g.pathbounds) |-> Translated(g.pathbounds[k], pos)],
      glyphbounds |-> Translated(g.glyphbounds, pos),
      category |-> g.category]

\* The names a caller asks for: the font's glyphs and one it does not have.
CallNames == GlyphNames \cup {"missing"}

\* get_beziers raises for a glyph that is not in the font.
ProviderFails(name) == name \notin GlyphNames

\* The offsets a caller positions glyphs at.
Offsets == { Point(0, 0), Point(3, 0) }

\* A variant without the cache test: every call asks the provider.
ProviderCallsAlways(cache, name) == 1

\* How often get_cached_glyph calls get_beziers: once on a miss, never on a
\* hit.
ProviderCalls(cache, name) == IF name \in DOMAIN cache THEN 0 ELSE 1

---------------------------------------------------------------------------
(* Overlap detector                                                        *)

\* The inner loops of find_overlaps for one pair of paths: the intersecting
\* segment pairs, in the order they are visited.
SegmentHits(p1, p2) ==
  LET left == AsSegments(p1)
      right == AsSegments(p2)
      pairs == BBoxIntersections([k \in 1..4 |-> SegBounds(left[k])],
                                 [k \in 1..4 |-> SegBounds(right[k])])
  IN SelectSeq(pairs, LAMBDA sp : Len(SegIntersections(left[sp[1]], right[sp[2]])) > 0)

\* A variant that keeps the entry of the first intersecting segment pair.
PathCollisionFirst(g1, g2, p1, p2, hits) ==
  LET first == hits[1]
  IN [glyph1 |-> g1.name, glyph2 |-> g2.name, path1 |-> p1, path2 |-> p2,
      point |-> SegIntersections(AsSegments(p1)[first[1]], AsSegments(p2)[first[2]])[1]]

\* The Collision stored for a pair of paths whose intersecting segment pairs
\* are hits: every intersecting segment pair overwrites the entry, so the
\* last one stays.
PathCollision(g1, g2, p1, p2, hits) ==
  LET last == hits[Len(hits)]
  IN [glyph1 |-> g1.name, glyph2 |-> g2.name, path1 |-> p1, path2 |-> p2,
      point |-> SegIntersections(AsSegments(p1)[last[1]], AsSegments(p2)[last[2]])[1]]

find_overlaps(g1, g2) ==
  IF ~ BoundsOverlap(g1.glyphbounds, g2.glyphbounds) THEN << >>
  ELSE LET overlappingPathBounds ==
             BBoxIntersections([k \in 1..Len(g1.paths) |-> PathBounds(g1.paths[k])],
                               [k \in 1..Len(g2.paths) |-> PathBounds(g2.paths[k])])
           hits == [k \in 1..Len(overlappingPathBounds) |->
                     SegmentHits(g1.paths[overlappingPathBounds[k][1]],
                                 g2.paths[overlappingPathBounds[k][2]])]
           colliding == SelectSeq([k \in 1..Len(hits) |-> k],
                                  LAMBDA k : hits[k] # << >>)
       IN [k \in 1..Len(colliding) |->
            PathCollision(g1, g2,
                          g1.paths[overlappingPathBounds[colliding[k]][1]],
                          g2.paths[overlappingPathBounds[colliding[k]][2]],
                          hits[colliding[k]])]

---------------------------------------------------------------------------
(* has_collisions                                                          *)

Reverse(s) == [k \in 1..Len(s) |-> s[Len(s) + 1 - k]]

\* The glyph list in the order has_collisions walks it.
Oriented(glyphs_in, dir) == IF dir = "RTL" THEN Reverse(glyphs_in) ELSE glyphs_in

\* first and second are bases and the rules say bases: false.
BasesIgnored(r, first, second) ==
  /\ first.category = "base"
  /\ second.category = "base"
  /\ ~ RuleGet(r, "bases", TRUE)

\* The scan of one rule's loops: cands are the glyph pairs on which
\* find_overlaps is called, in loop order, reps[k] is the list returned for
\* cands[k] when it is not empty, tags[k] names the rule.  The scan ends at the first
\* pair whose list is not empty.
Scan(cands, reps, tags) ==
  LET n == Len(cands)
      first[k \in 1..(n + 1)] ==
        IF k > n THEN 0
        ELSE IF reps[k] # << >> THEN k
        ELSE first[k + 1]
      hitIx == first[1]
      last == IF hitIx = 0 THEN n ELSE hitIx
  IN [hit |-> hitIx # 0,
      overlaps |-> IF hitIx = 0 THEN << >> ELSE reps[hitIx],
      tested |-> [t \in 1..last |-> << tags[t], cands[t][1], cands[t][2] >>]]

NoScan == [hit |-> FALSE, overlaps |-> << >>, tested |-> << >>]

\* The while loop of the faraway rule: the first index at or after ix that
\* holds no mark.
RECURSIVE SkipMarks(_, _)
SkipMarks(gs, ix) ==
  IF ix <= Len(gs) /\ gs[ix].category = "mark" THEN SkipMarks(gs, ix + 1) ELSE ix

\* nonAdjacent of the faraway rule for the glyph at firstIx.
NonAdjacent(gs, firstIx) ==
  IF gs[firstIx].category = "base" THEN SkipMarks(gs, firstIx + 1) + 1
  ELSE firstIx + 1

FarawayPairs(gs, r) ==
  SelectSeq(PairSeq(Len(gs), Len(gs)),
            LAMBDA p : /\ p[2] >= NonAdjacent(gs, p[1])
                       /\ ~ BasesIgnored(r, gs[p[1]], gs[p[2]]))

FarawayScan(gs, r) ==
  LET cands == FarawayPairs(gs, r)
  IN Scan(cands,
          [k \in 1..Len(cands) |-> find_overlaps(gs[cands[k][1]], gs[cands[k][2]])],
          [k \in 1..Len(cands) |-> "faraway"])

_get_sequential_cluster_ids(gs) ==
  LET sci[k \in 0..Len(gs)] ==
        IF k = 0 THEN 0
        ELSE IF k = 1 \/ gs[k].cluster # gs[k - 1].cluster THEN sci[k - 1] + 1
        ELSE sci[k - 1]
  IN [k \in 1..Len(gs) |-> sci[k]]

\* A wider test: clusters two apart count as adjacent too.
ClustersWithinTwo(si, sj) == si - sj \in {-2, -1, 0, 1, 2}

\* The test of the adjacent_clusters rule on a pair of sequential cluster ids.
ClustersAdjacent(si, sj) == si - sj \in {-1, 0, 1}

AdjacentClusterPairs(gs) ==
  LET scis == _get_sequential_cluster_ids(gs)
  IN SelectSeq(PairSeq(Len(gs), Len(gs)),
               LAMBDA p : p[1] < p[2] /\ ClustersAdjacent(scis[p[1]], scis[p[2]]))

AdjacentClustersScan(gs, r) ==
  LET cands == AdjacentClusterPairs(gs)
  IN Scan(cands,
          [k \in 1..Len(cands) |->
             IF BasesIgnored(r, gs[cands[k][1]], gs[cands[k][2]]) THEN << >>
             ELSE find_overlaps(gs[cands[k][1]], gs[cands[k][2]])],
          [k \in 1..Len(cands) |-> "adjacent_clusters"])

\* The outer range of the marks rule, range(1, len(glyphs) - 1), 1-based.
MarksOuterRange(n) == 2..(n - 1)

MarksPairs(gs) ==
  SelectSeq(PairSeq(Len(gs), Len(gs)),
            LAMBDA p : /\ p[1] \in MarksOuterRange(Len(gs))
                       /\ p[1] < p[2]
                       /\ gs[p[1]].category = "mark"
                       /\ gs[p[2]].category = "mark")

MarksScan(gs) ==
  LET cands == MarksPairs(gs)
  IN Scan(cands,
          [k \in 1..Len(cands) |-> find_overlaps(gs[cands[k][1]], gs[cands[k][2]])],
          [k \in 1..Len(cands) |-> "marks"])

\* any([x.hasAnchor for x in g["paths"]])
HasAnchors(g) == \E k \in 1..Len(g.paths) : g.paths[k].hasAnchor

\* The cursive branch is taken: firstHasAnchors and secondHasAnchors are both
\* computed from first["paths"].
CursiveApplies(r, first, second) ==
  LET firstHasAnchors == HasAnchors(first)
      secondHasAnchors == HasAnchors(first)
  IN RuleOn(r, "cursive") /\ (firstHasAnchors \/ secondHasAnchors)

\* A looser filter: a collision passes when either path holds an anchor.
CursiveFilterEither(c) == c.path1.hasAnchor \/ c.path2.hasAnchor

\* The filter of the cursive rule on a Collision.
CursiveFilter(c) ==
  \/ (c.path1.hasAnchor /\ ~ c.path2.hasAnchor)
  \/ (c.path2.hasAnchor /\ ~ c.path1.hasAnchor)

CursiveOverlaps(first, second) ==
  SelectSeq(find_overlaps(first, second), CursiveFilter)

\* A stricter comparison: the intersection exceeds the share of both paths.
AreaExceedsBoth(ia, c, t) ==
  /\ ia * 100 > PathArea(c.path1) * t
  /\ ia * 100 > PathArea(c.path2) * t

\* The comparison of the area rule; t is the threshold in percent.
AreaExceeds(ia, c, t) ==
  \/ ia * 100 > PathArea(c.path1) * t
  \/ ia * 100 > PathArea(c.path2) * t

\* newoverlaps of the area rule: a Collision is appended once for every
\* shared region that exceeds the threshold.
RECURSIVE NewOverlaps(_, _)
NewOverlaps(overlaps, t) ==
  IF overlaps = << >> THEN << >>
  ELSE LET i1 == Head(overlaps)
           big == SelectSeq(IntersectionAreas(i1.path1, i1.path2),
                            LAMBDA ia : AreaExceeds(ia, i1, t))
       IN [k \in 1..Len(big) |-> i1] \o NewOverlaps(Tail(overlaps), t)

\* The rule that calls find_overlaps on the adjacent pair (first, second) in
\* the last loop, or "none".
AdjacentRule(r, first, second) ==
  IF CursiveApplies(r, first, second) THEN "cursive"
  ELSE IF "area" \in DOMAIN r /\ ~ BasesIgnored(r, first, second) THEN "area"
  ELSE "none"

CursiveAreaPairs(gs, r) ==
  SelectSeq(PairSeq(Len(gs), Len(gs)),
            LAMBDA p : /\ p[2] = p[1] + 1
                       /\ AdjacentRule(r, gs[p[1]], gs[p[2]]) # "none")

CursiveAreaScan(gs, r) ==
  LET cands == CursiveAreaPairs(gs, r)
  IN Scan(cands,
          [k \in 1..Len(cands) |->
             IF AdjacentRule(r, gs[cands[k][1]], gs[cands[k][2]]) = "cursive"
             THEN CursiveOverlaps(gs[cands[k][1]], gs[cands[k][2]])
             ELSE NewOverlaps(find_overlaps(gs[cands[k][1]], gs[cands[k][2]]),
                              r["area"])],
          [k \in 1..Len(cands) |-> AdjacentRule(r, gs[cands[k][1]], gs[cands[k][2]])])

\* A variant without the early return: later scans still run and add to
\* the list.
AndThenAll(before, scan) ==
  [hit |-> before.hit \/ scan.hit, overlaps |-> before.overlaps \o scan.overlaps,
   tested |-> before.tested \o scan.tested]

\* One rule's scan after the scans before it: it runs only when none of
\* them has returned.
AndThen(before, scan) ==
  IF before.hit THEN before
  ELSE [hit |-> scan.hit, overlaps |-> scan.overlaps,
        tested |-> before.tested \o scan.tested]

\* has_collisions: the list returned, and the find_overlaps calls made.
has_collisions(glyphs_in, r, dir) ==
  LET gs == Oriented(glyphs_in, dir)
      f == IF "faraway" \in DOMAIN r THEN FarawayScan(gs, r) ELSE NoScan
      a == IF "adjacent_clusters" \in DOMAIN r THEN AdjacentClustersScan(gs, r)
           ELSE NoScan
      m == IF "marks" \in DOMAIN r THEN MarksScan(gs) ELSE NoScan
      c == IF "cursive" \in DOMAIN r \/ "area" \in DOMAIN r
           THEN CursiveAreaScan(gs, r) ELSE NoScan
      out == AndThen(AndThen(AndThen(f, a), m), c)
  IN [overlaps |-> out.overlaps, tested |-> out.tested]

---------------------------------------------------------------------------
(* The state machine                                                       *)

Init ==
  /\ rules \in RuleDicts
  /\ direction \in {"LTR", "RTL"}
  /\ glyphcache = [n \in {} |-> << >>]
  /\ calls = [n \in CallNames |-> 0]
  /\ glyphs = << >>
  /\ cursor = 0
  /\ charIx = 0
  /\ pc = "shaping"
  /\ result = << >>
  /\ tested = << >>
  /\ log = << >>

\* One round of the loop of get_glyphs: the shaper's next glyph is positioned
\* at the cursor and appended.
GetGlyphs(name) ==
  /\ pc = "shaping"
  /\ Len(glyphs) < MaxRun
  /\ LET sp == ShapedPosition(name)
         position == Point(cursor + sp[1], sp[2])
         g == get_positioned_glyph(glyphcache, rules, name, position)
         cluster == ShapedCluster(name, glyphs, charIx)
     IN /\ glyphs' = Append(glyphs, g @@ ("cluster" :> cluster))
        /\ cursor' = cursor + sp[3]
  /\ charIx' = charIx + CharsOf(name)
  /\ glyphcache' = CacheAfter(glyphcache, rules, name)
  /\ calls' = IF name \in DOMAIN glyphcache THEN calls
              ELSE [calls EXCEPT ![name] = @ + 1]
  /\ UNCHANGED << rules, direction, pc, result, tested, log >>

HasCollisions ==
  /\ pc = "shaping"
  /\ \E out \in { has_collisions(glyphs, rules, direction) } :
       /\ result' = out.overlaps
       /\ tested' = out.tested
  /\ pc' = "checked"
  /\ UNCHANGED << rules, direction, glyphcache, calls, glyphs, cursor, charIx,
                  log >>

Next ==
  \/ \E name \in GlyphNames : GetGlyphs(name)
  \/ HasCollisions

Spec == Init /\ [][Next]_vars

\* The detectors on which find_overlaps is studied: the rule dictionary has
\* no bases key, so that no rule skips a pair of bases.
OverlapInit == Init /\ "bases" \notin DOMAIN rules

OverlapSpec == OverlapInit /\ [][Next]_vars

\* get_cached_glyph raises: a miss on a glyph for which get_beziers raises,
\* before an entry is stored.
Raises(cache, name) == name \notin DOMAIN cache /\ ProviderFails(name)

\* One logged call: what was asked and what came back, nothing when the
\* call raised.
Call(op, name, pos, out) == [op |-> op, name |-> name, pos |-> pos, out |-> out]

\* A caller's get_cached_glyph(name): a hit returns the entry, a miss builds
\* and stores it.
GetCachedGlyph(name) ==
  /\ Len(log) < MaxCalls
  /\ calls' = [calls EXCEPT ![name] = @ + ProviderCalls(glyphcache, name)]
  /\ IF Raises(glyphcache, name)
     THEN /\ glyphcache' = glyphcache
          /\ log' = Append(log, Call("get_cached_glyph", name, Point(0, 0), << >>))
     ELSE /\ glyphcache' = CacheAfter(glyphcache, rules, name)
          /\ log' = Append(log, Call("get_cached_glyph", name, Point(0, 0),
                                     << get_cached_glyph(glyphcache, rules, name) >>))
  /\ UNCHANGED << rules, direction, glyphs, cursor, charIx, pc, result, tested >>

\* A caller's get_positioned_glyph(name, pos): the cache is left as
\* get_cached_glyph leaves it, the paths and bounds returned are translated
\* copies.
GetPositionedGlyph(name, pos) ==
  /\ Len(log) < MaxCalls
  /\ calls' = [calls EXCEPT ![name] = @ + ProviderCalls(glyphcache, name)]
  /\ IF Raises(glyphcache, name)
     THEN /\ glyphcache' = glyphcache
          /\ log' = Append(log, Call("get_positioned_glyph", name, pos, << >>))
     ELSE /\ glyphcache' = CacheAfter(glyphcache, rules, name)
          /\ log' = Append(log, Call("get_positioned_glyph", name, pos,
                                     << get_positioned_glyph(glyphcache, rules,
                                                             name, pos) >>))
  /\ UNCHANGED << rules, direction, glyphs, cursor, charIx, pc, result, tested >>

CacheInit == Init /\ DOMAIN rules \subseteq {"cursive"} /\ direction = "LTR"

CacheNext ==
  \/ \E name \in CallNames : GetCachedGlyph(name)
  \/ \E name \in CallNames, pos \in Offsets : GetPositionedGlyph(name, pos)

CacheSpec == CacheInit /\ [][CacheNext]_vars

---------------------------------------------------------------------------
(* Vocabulary of the properties                                            *)

Checked == pc = "checked"

\* The glyph list as has_collisions walks it.
Gs == Oriented(glyphs, direction)

Range(s) == { s[k] : k \in 1..Len(s) }

IsMark(g) == g.category = "mark"

\* No rule but those of K has a key in the rule dictionary.
OnlyRules(K) == DOMAIN rules \subseteq K

\* Every selecting rule in the dictionary is set to true.
RulesPlain ==
  \A k \in DOMAIN rules \cap {"faraway", "marks", "adjacent_clusters"} : rules[k]

\* What a rule returns of the pair (first, second) when it tests it.
RuleOverlaps(rule, first, second) ==
  CASE rule = "faraway" -> find_overlaps(first, second)
    [] rule = "adjacent_clusters" ->
         IF BasesIgnored(rules, first, second) THEN << >>
         ELSE find_overlaps(first, second)
    [] rule = "marks" -> find_overlaps(first, second)
    [] rule = "cursive" -> SelectSeq(find_overlaps(first, second), CursiveFilter)
    [] rule = "area" -> NewOverlaps(find_overlaps(first, second), rules["area"])

\* The glyph pairs each rule in the dictionary selects, whatever their order.
SelectedPairs ==
  LET n == Len(Gs)
  IN (IF "faraway" \in DOMAIN rules
      THEN { << "faraway", p[1], p[2] >> : p \in Range(FarawayPairs(Gs, rules)) }
      ELSE {})
     \cup (IF "adjacent_clusters" \in DOMAIN rules
           THEN { << "adjacent_clusters", p[1], p[2] >> : p \in Range(AdjacentClusterPairs(Gs)) }
           ELSE {})
     \cup (IF "marks" \in DOMAIN rules
           THEN { << "marks", p[1], p[2] >> : p \in Range(MarksPairs(Gs)) }
           ELSE {})
     \cup (IF "cursive" \in DOMAIN rules \/ "area" \in DOMAIN rules
           THEN { << AdjacentRule(rules, Gs[p[1]], Gs[p[2]]), p[1], p[2] >> :
                    p \in Range(CursiveAreaPairs(Gs, rules)) }
           ELSE {})

\* The reportable collisions of all selected pairs.
AllReportable ==
  UNION { Range(RuleOverlaps(t[1], Gs[t[2]], Gs[t[3]])) : t \in SelectedPairs }

---------------------------------------------------------------------------
(* C1 as stated: has_collisions returns the collisions of every selected   *)
(* pair that has a reportable overlap, not only those of the first pair.   *)
C1_AllPairsReturned ==
  (Checked /\ RulesPlain /\ "faraway" \notin DOMAIN rules)
  => AllReportable \subseteq Range(result)

(* C1, amended: has_collisions returns as soon as some collisions are      *)
(* found.  A list that is not empty holds the reportable collisions of one *)
(* pair, the last pair find_overlaps was called on, and no pair tested     *)
(* before it had any; an empty list means no tested pair had any.          *)
C1_FirstPairOnly ==
  Checked =>
    /\ \A k \in 1..(Len(tested) - 1) :
         RuleOverlaps(tested[k][1], Gs[tested[k][2]], Gs[tested[k][3]]) = << >>
    /\ Range(tested) \subseteq SelectedPairs
    /\ IF result = << >>
       THEN /\ Range(tested) = SelectedPairs
            /\ AllReportable = {}
       ELSE /\ tested # << >>
            /\ LET t == tested[Len(tested)]
               IN result = RuleOverlaps(t[1], Gs[t[2]], Gs[t[3]])

\* Two selected pairs have reportable collisions and only those of the first
\* are returned.
C1_Witness ==
  /\ Checked
  /\ result # << >>
  /\ \E t \in SelectedPairs :
       /\ RuleOverlaps(t[1], Gs[t[2]], Gs[t[3]]) # << >>
       /\ Range(RuleOverlaps(t[1], Gs[t[2]], Gs[t[3]])) \cap Range(result) = {}

---------------------------------------------------------------------------
(* C2: with a rule dictionary that holds only bases: true, has_collisions  *)
(* on a run of two glyphs that are not marks returns at least one          *)
(* collision when their outlines intersect and an empty list when not.     *)
C2_BasesOnlyDetects ==
  ( /\ Checked
    /\ rules = [k \in {"bases"} |-> TRUE]
    /\ Len(glyphs) = 2
    /\ ~ IsMark(Gs[1])
    /\ ~ IsMark(Gs[2]) )
  => (result # << >> <=> find_overlaps(Gs[1], Gs[2]) # << >>)

---------------------------------------------------------------------------
(* C3: with bases: false, has_collisions never returns a collision whose   *)
(* two glyphs are both of category base, whatever the other rules are.     *)
C3_NoBaseBaseCollision ==
  (Checked /\ "bases" \in DOMAIN rules /\ ~ rules["bases"])
  => \A c \in Range(result) :
       ~ (categorize_glyph(c.glyph1) = "base" /\ categorize_glyph(c.glyph2) = "base")

---------------------------------------------------------------------------
\* A shared region of the two paths of c exceeds t percent of the area of at
\* least one of them.
ExceedsShare(c, t) ==
  \E k \in 1..Len(IntersectionAreas(c.path1, c.path2)) :
    LET ia == IntersectionAreas(c.path1, c.path2)[k]
    IN ia * 100 > t * PathArea(c.path1) \/ ia * 100 > t * PathArea(c.path2)

\* The rule dictionary with the area threshold set to t.
WithArea(t) == [k \in DOMAIN rules |-> IF k = "area" THEN t ELSE rules[k]]

\* No rule but the area rule acts on the pair (first, second).
AreaRuleAlone(first, second) ==
  /\ "area" \in DOMAIN rules
  /\ OnlyRules({"area", "bases", "cursive"})
  /\ ~ CursiveApplies(rules, first, second)
  /\ ~ BasesIgnored(rules, first, second)

(* C4 as stated: with the area rule set to t, a collision between two      *)
(* overlapping adjacent glyphs is reported if and only if the intersection *)
(* area exceeds t times the area of at least one of the two paths.         *)
C4_ReportedIffExceeds ==
  ( /\ Checked
    /\ RulesPlain
    /\ "faraway" \notin DOMAIN rules
    /\ "area" \in DOMAIN rules
    /\ Len(glyphs) = 2 )
  => \A c \in Range(find_overlaps(Gs[1], Gs[2])) :
       c \in Range(result) <=> ExceedsShare(c, rules["area"])

(* C4, amended: on a run of two glyphs on which no other rule acts (no     *)
(* faraway, adjacent_clusters or marks key, the cursive branch not taken,  *)
(* the pair not two bases under bases: false) exactly the collisions whose *)
(* intersection area exceeds t times the area of at least one of the two   *)
(* paths are returned; and on any run of two glyphs, under any rules,      *)
(* raising t adds no collision.                                            *)
C4_AreaRule ==
  (Checked /\ "area" \in DOMAIN rules /\ Len(glyphs) = 2)
  => /\ AreaRuleAlone(Gs[1], Gs[2])
        => Range(result) = { c \in Range(find_overlaps(Gs[1], Gs[2])) :
                               ExceedsShare(c, rules["area"]) }
     /\ \A t \in AreaThresholds :
          t >= rules["area"]
          => Range(has_collisions(glyphs, WithArea(t), direction).overlaps)
               \subseteq Range(result)

\* An overlapping pair is reported at one threshold and not at a higher one.
C4_Witness ==
  /\ Checked
  /\ "area" \in DOMAIN rules
  /\ Len(glyphs) = 2
  /\ AreaRuleAlone(Gs[1], Gs[2])
  /\ result # << >>
  /\ \E t \in AreaThresholds :
       /\ t > rules["area"]
       /\ has_collisions(glyphs, WithArea(t), direction).overlaps = << >>

---------------------------------------------------------------------------
\* Some glyph strictly between positions i and j is not a mark.
BaseBetween(i, j) == \E k \in (i + 1)..(j - 1) : ~ IsMark(Gs[k])

\* The overlapping pairs of anchor-bearing glyphs of the run.
AnchoredOverlaps ==
  { p \in (1..Len(Gs)) \X (1..Len(Gs)) :
      /\ p[1] < p[2]
      /\ HasAnchors(Gs[p[1]])
      /\ HasAnchors(Gs[p[2]])
      /\ find_overlaps(Gs[p[1]], Gs[p[2]]) # << >> }

(* C5 as stated: with the cursive rule enabled, an overlap between two     *)
(* anchor-bearing glyphs i and j is not reported when no glyph strictly    *)
(* between them is a non-mark glyph, and is reported when one is.          *)
C5_InterveningBase ==
  (Checked /\ RuleOn(rules, "cursive") /\ OnlyRules({"cursive", "bases"}))
  => \A p \in AnchoredOverlaps :
       IF BaseBetween(p[1], p[2])
       THEN Range(find_overlaps(Gs[p[1]], Gs[p[2]])) \cap Range(result) # {}
       ELSE \A c \in Range(find_overlaps(Gs[p[1]], Gs[p[2]])) :
              (c.path1.hasAnchor /\ c.path2.hasAnchor) => c \notin Range(result)

(* C5, amended: the cursive rule tests only glyphs at consecutive          *)
(* positions, whatever lies around them, and only when the first of the    *)
(* two has an anchor-bearing path; with no other rule in the dictionary, a *)
(* collision between two anchor-bearing paths is never returned, and every *)
(* returned collision is one of two consecutive glyphs: a glyph put        *)
(* between an overlapping pair takes the pair out of the test.             *)
C5_CursiveAdjacentOnly ==
  (Checked /\ RuleOn(rules, "cursive"))
  => /\ \A t \in Range(tested) :
          t[1] = "cursive" => (t[3] = t[2] + 1 /\ HasAnchors(Gs[t[2]]))
     /\ OnlyRules({"cursive", "bases"})
          => /\ \A c \in Range(result) : ~ (c.path1.hasAnchor /\ c.path2.hasAnchor)
             /\ result # << >>
                  => \E i \in 1..(Len(Gs) - 1) :
                       Range(result) \subseteq Range(find_overlaps(Gs[i], Gs[i + 1]))

\* Two anchor-bearing glyphs overlap with a base between them, and the
\* cursive rule has run without returning a collision of theirs.
C5_Witness ==
  /\ Checked
  /\ RuleOn(rules, "cursive")
  /\ OnlyRules({"cursive", "bases"})
  /\ \E p \in AnchoredOverlaps :
       /\ BaseBetween(p[1], p[2])
       /\ Range(find_overlaps(Gs[p[1]], Gs[p[2]])) \cap Range(result) = {}
  /\ \E t \in Range(tested) : t[1] = "cursive"

---------------------------------------------------------------------------
(* C6: with cursive: true, a collision between two paths of adjacent       *)
(* glyphs neither of which contains a cursive anchor is reported.          *)
C6_UnanchoredReported ==
  (Checked /\ RuleOn(rules, "cursive") /\ Len(glyphs) = 2)
  => \A c \in Range(find_overlaps(Gs[1], Gs[2])) :
       (~ c.path1.hasAnchor /\ ~ c.path2.hasAnchor) => c \in Range(result)

---------------------------------------------------------------------------
\* The rule dictionary without the key k.
Without(k) == [x \in DOMAIN rules \ {k} |-> rules[x]]

(* C7: a rule among faraway, marks and adjacent_clusters that is present   *)
(* and false selects no pair: the result is the one with the key absent.   *)
C7_FalseIsAbsent ==
  Checked =>
    \A k \in {"faraway", "marks", "adjacent_clusters"} :
      (k \in DOMAIN rules /\ ~ rules[k])
      => result = has_collisions(glyphs, Without(k), direction).overlaps

---------------------------------------------------------------------------
\* find_overlaps was called on the pair (i, j) by the rule.
TestedBy(rule, i, j) == << rule, i, j >> \in Range(tested)

Abs(x) == IF x < 0 THEN -x ELSE x

\* The sequential cluster id of position k: one more than the number of
\* cluster changes up to k.
SeqClusterId(k) ==
  1 + Cardinality({ j \in 2..k : Gs[j].cluster # Gs[j - 1].cluster })

\* Every rule's scan ran to its end.
ScansComplete == Checked /\ result = << >>

(* C8 as stated: with adjacent_clusters enabled, a pair (i, j), i < j, is  *)
(* tested by that rule if and only if the shaping cluster ids of the two   *)
(* glyphs differ by less than 2.                                           *)
C8_RawClusterIds ==
  (ScansComplete /\ RuleOn(rules, "adjacent_clusters"))
  => \A i \in 1..Len(Gs), j \in 1..Len(Gs) :
       i < j => ( TestedBy("adjacent_clusters", i, j)
                  <=> Abs(Gs[i].cluster - Gs[j].cluster) <= 1 )

(* C8, amended: the rule tests only pairs whose sequential cluster ids     *)
(* (the count of cluster changes along the run, not the shaper's ids)      *)
(* differ by less than 2, and, unless a collision was returned before the  *)
(* scan came to them, all of them.                                         *)
C8_SequentialClusterIds ==
  (Checked /\ RuleOn(rules, "adjacent_clusters"))
  => \A i \in 1..Len(Gs), j \in 1..Len(Gs) :
       i < j =>
         /\ TestedBy("adjacent_clusters", i, j)
              => Abs(SeqClusterId(i) - SeqClusterId(j)) <= 1
         /\ (result = << >> /\ Abs(SeqClusterId(i) - SeqClusterId(j)) <= 1)
              => TestedBy("adjacent_clusters", i, j)

\* A pair whose shaper cluster ids differ by 2 or more was tested, and a pair
\* two clusters apart was not.
C8_Witness ==
  /\ ScansComplete
  /\ RuleOn(rules, "adjacent_clusters")
  /\ \E i \in 1..Len(Gs), j \in 1..Len(Gs) :
       /\ i < j
       /\ TestedBy("adjacent_clusters", i, j)
       /\ Abs(Gs[i].cluster - Gs[j].cluster) >= 2
  /\ \E i \in 1..Len(Gs), j \in 1..Len(Gs) :
       /\ i < j
       /\ ~ TestedBy("adjacent_clusters", i, j)

---------------------------------------------------------------------------
(* C9: with the marks rule enabled, if any two marks of the run overlap,   *)
(* wherever they sit, has_collisions returns a list that is not empty.     *)
C9_AllMarkPairs ==
  (Checked /\ RuleOn(rules, "marks"))
  => ( (\E i \in 1..Len(Gs), j \in 1..Len(Gs) :
          /\ i < j
          /\ IsMark(Gs[i])
          /\ IsMark(Gs[j])
          /\ find_overlaps(Gs[i], Gs[j]) # << >>)
       => result # << >> )

---------------------------------------------------------------------------
(* C10: with the faraway rule enabled, a pair (i, j) is tested by the rule *)
(* only if j lies strictly beyond glyph i, the marks that follow it and    *)
(* the glyph after those; never two glyphs at consecutive positions.       *)
C10_BeyondAdjacencyUnit ==
  (Checked /\ RuleOn(rules, "faraway"))
  => \A t \in Range(tested) :
       t[1] = "faraway" => (t[3] > t[2] + 1 /\ t[3] > SkipMarks(Gs, t[2] + 1))

---------------------------------------------------------------------------
(* Vocabulary of the properties of find_overlaps                           *)

\* The segment pairs <<a, b>> of two paths that intersect; there is none
\* when the bounding boxes of the paths lie apart.
Crossing(p1, p2) ==
  IF ~ BoundsOverlap(PathBounds(p1), PathBounds(p2)) THEN {}
  ELSE LET left == AsSegments(p1)
           right == AsSegments(p2)
       IN { x \in (1..4) \X (1..4) :
              SegIntersections(left[x[1]], right[x[2]]) # << >> }

\* x comes before y in segment traversal order.
Before(x, y) == x[1] < y[1] \/ (x[1] = y[1] /\ x[2] < y[2])

\* The first ("first") or last ("last") intersecting segment pair in
\* traversal order.
CrossingAt(p1, p2, which) ==
  LET cr == Crossing(p1, p2)
  IN CHOOSE x \in cr :
       \A y \in cr :
         y = x \/ (IF which = "first" THEN Before(x, y) ELSE Before(y, x))

\* The first intersection point of that segment pair.
CrossingPoint(p1, p2, which) ==
  LET x == CrossingAt(p1, p2, which)
  IN SegIntersections(AsSegments(p1)[x[1]], AsSegments(p2)[x[2]])[1]

\* out, the list find_overlaps(g1, g2) returned, holds exactly one Collision
\* for each pair of paths with an intersecting segment pair, and none for
\* any other pair.
OnePerPathPair(g1, g2, out) ==
  /\ \A k \in 1..Len(g1.paths), l \in 1..Len(g2.paths) :
       Cardinality({ c \in 1..Len(out) : /\ out[c].path1 = g1.paths[k]
                                         /\ out[c].path2 = g2.paths[l] })
         = IF Crossing(g1.paths[k], g2.paths[l]) # {} THEN 1 ELSE 0
  /\ \A c \in 1..Len(out) :
       /\ out[c].glyph1 = g1.name
       /\ out[c].glyph2 = g2.name
       /\ \E k \in 1..Len(g1.paths), l \in 1..Len(g2.paths) :
            out[c].path1 = g1.paths[k] /\ out[c].path2 = g2.paths[l]

\* Every Collision of every find_overlaps call that has_collisions made, and
\* every Collision it returned, carries the first intersection point of the
\* given intersecting segment pair of its two paths.
CollisionsCarry(which) ==
  /\ \A gs \in { Gs } :
       \A t \in Range(tested) :
         \A out \in { find_overlaps(gs[t[2]], gs[t[3]]) } :
           /\ OnePerPathPair(gs[t[2]], gs[t[3]], out)
           /\ \A c \in Range(out) :
                c.point = CrossingPoint(c.path1, c.path2, which)
  /\ \A c \in Range(result) :
       c.point = CrossingPoint(c.path1, c.path2, which)

---------------------------------------------------------------------------
(* C11 as stated: find_overlaps returns exactly one Collision per pair of  *)
(* paths with an intersecting segment pair, and its point is the first     *)
(* intersection of the first intersecting segment pair in traversal order. *)
C11_FirstPointFound == Checked => CollisionsCarry("first")

(* C11, amended: find_overlaps returns exactly one Collision per pair of   *)
(* paths with an intersecting segment pair, never one per segment pair;    *)
(* every intersecting segment pair overwrites the entry of its path pair,  *)
(* so the point is the first intersection of the last intersecting segment *)
(* pair in traversal order.                                                *)
C11_LastSegmentPairPoint == Checked => CollisionsCarry("last")

\* has_collisions has returned a Collision of two paths of which several
\* segment pairs intersect, the first and the last in different points.
C11_Witness ==
  /\ Checked
  /\ \E c \in Range(result) :
       /\ Cardinality(Crossing(c.path1, c.path2)) > 1
       /\ CrossingPoint(c.path1, c.path2, "first")
            # CrossingPoint(c.path1, c.path2, "last")
       /\ c.point = CrossingPoint(c.path1, c.path2, "last")

---------------------------------------------------------------------------
(* Vocabulary of the properties of the outline cache                       *)

\* The logged call returned a glyph; it raised otherwise.
Returned(e) == e.out # << >>

\* How many of the logged calls asked for the glyph name.
CallsFor(name) == Cardinality({ k \in 1..Len(log) : log[k].name = name })

\* What a call returns when it is answered from the cache as it is now.
FromCache(e) ==
  IF e.op = "get_cached_glyph" THEN glyphcache[e.name]
  ELSE get_positioned_glyph(glyphcache, rules, e.name, e.pos)

\* The cache holds entries only for names that were asked for and that the
\* font has; a call raises exactly when the provider fails, and adds no
\* entry then; what every earlier call returned is what the cache entry
\* yields now, so no entry has changed since it was created; and two calls
\* for the same name at the same offset returned the same glyph.
CacheFaithful ==
  /\ \A n \in DOMAIN glyphcache : ~ ProviderFails(n) /\ CallsFor(n) > 0
  /\ \A k \in 1..Len(log) :
       /\ Returned(log[k]) <=> ~ ProviderFails(log[k].name)
       /\ Returned(log[k]) =>
            /\ log[k].name \in DOMAIN glyphcache
            /\ log[k].out[1] = FromCache(log[k])
  /\ \A k \in 1..Len(log), l \in 1..Len(log) :
       (/\ log[k].op = log[l].op
        /\ log[k].name = log[l].name
        /\ log[k].pos = log[l].pos) => log[k].out = log[l].out

---------------------------------------------------------------------------
(* C12 as stated: over any sequence of get_positioned_glyph and            *)
(* get_cached_glyph calls the provider is invoked at most once per glyph   *)
(* name, cache entries never change, the same name at the same offset      *)
(* yields the same glyph, and a failing provider adds no cache entry.      *)
C12_OncePerName ==
  /\ \A n \in CallNames : calls[n] <= 1
  /\ CacheFaithful

(* C12, amended: the provider is invoked at most once per glyph name for   *)
(* which it succeeds, namely on the first call, which creates the entry;   *)
(* for a name on which it fails no entry is created and it is invoked      *)
(* again on every call.  Cache entries never change, the same name at the  *)
(* same offset yields the same glyph, and a failing provider adds no       *)
(* cache entry.                                                            *)
C12_OncePerCachedName ==
  /\ \A n \in CallNames :
       IF ProviderFails(n)
       THEN n \notin DOMAIN glyphcache /\ calls[n] = CallsFor(n)
       ELSE /\ calls[n] <= 1
            /\ calls[n] = 1 <=> n \in DOMAIN glyphcache
            /\ calls[n] = 1 <=> CallsFor(n) > 0
  /\ CacheFaithful

\* A glyph of the font was asked for twice, at the same offset, and a glyph
\* the font does not have was asked for as well.
C12_Witness ==
  /\ \E k \in 1..Len(log), l \in 1..Len(log) :
       /\ k < l
       /\ log[k].op = "get_positioned_glyph"
       /\ log[k] = log[l]
       /\ Returned(log[l])
       /\ Len(log[l].out[1].paths) > 0
       /\ calls[log[l].name] = 1
  /\ \E k \in 1..Len(log) : ~ Returned(log[k]) /\ calls[log[k].name] > 0

====
